---- MODULE Spec2Model ----
(***************************************************************************)
(* Model of lib/xlat_tables_v2/aarch32/xlat_tables_arch.c: the AArch32     *)
(* backend of the translation-table library.  Registers are 32-bit words,  *)
(* the MMU configuration is the params[] array filled by setup_mmu_cfg,    *)
(* and the TLB maintenance functions are instruction sequences executed by *)
(* one processing element (PE) against the TLBs of all PEs.                *)
(***************************************************************************)
EXTENDS Integers, Sequences, FiniteSets, TLC

VARIABLES
    enable_assertions,  \* build option ENABLE_ASSERTIONS
    arm_arch,           \* build option <<ARM_ARCH_MAJOR, ARM_ARCH_MINOR>>
    scr,                \* Secure Configuration Register (read by IS_IN_SECURE)
    sctlr,              \* System Control Register (read by is_mmu_enabled_ctx)
    params,             \* caller's params[] buffers, one per call site
    call,               \* arguments of the setup_mmu_cfg call made at each call site
    halted,             \* TRUE once an assertion has failed (panic)
    last,               \* the operation executed by the last step, its argument
                        \* and the value it returned
    table,              \* translation table entries as last written (program order)
    mem,                \* translation table entries as seen by the table walkers
    store_buf,          \* entries whose last store has not drained into memory
    tlb,                \* per-PE cached translations: sets of <<page, descriptor>>
    pending,            \* pages whose broadcast invalidation is issued, not complete
    writer,             \* PE currently updating the table (0: none)
    changed,            \* pages changed by the writer in the current batch
    dirty,              \* changed pages not yet passed to xlat_arch_tlbi_va
    prog,               \* primitives of the current library call left to execute
    cur_call,           \* library call being executed
    issued,             \* primitives issued so far by that call
    wpc,                \* position of the writer in the update protocol
    batches             \* number of update batches started

cfg_vars == <<enable_assertions, arm_arch, scr, sctlr, params, call, halted, last>>
tlb_vars == <<table, mem, store_buf, tlb, pending, writer, changed, dirty, prog,
              cur_call, issued, wpc, batches>>
vars == <<cfg_vars, tlb_vars>>

(***************************************************************************)
(* Machine words.  A word is the set of the positions of its 1 bits, so    *)
(* that 32-bit and 64-bit values keep their width: | is \cup, & is \cap.   *)
(***************************************************************************)
RECURSIVE Word(_)
\* the word of a small natural number
Word(n) == IF n = 0 THEN {} ELSE
           (IF n % 2 = 1 THEN {0} ELSE {}) \cup {b + 1 : b \in Word(n \div 2)}

RECURSIVE Val(_)
\* the number of a word that fits a small natural number
Val(w) == IF w = {} THEN 0 ELSE
          LET b == CHOOSE x \in w : TRUE IN 2 ^ b + Val(w \ {b})

BIT(n) == {n}
U32(w) == w \cap (0 .. 31)
UINT32_MAX == 0 .. 31
Shl(w, n) == {b + n : b \in w}
LowestSet(w) == CHOOSE b \in w : \A c \in w : b <= c
LowestClear32(w) == CHOOSE b \in (0 .. 31) \ w : \A c \in (0 .. 31) \ w : b <= c
\* w + 1 and w - 1 on 32 bits, wrapping
Inc32(w) == IF w = 0 .. 31 THEN {}
            ELSE (w \ (0 .. LowestClear32(w))) \cup {LowestClear32(w)}
Dec32(w) == IF w = {} THEN 0 .. 31
            ELSE (w \ {LowestSet(w)}) \cup (0 .. LowestSet(w) - 1)
\* unsigned comparison a >= b
GeWord(a, b) ==
    LET diff == (a \ b) \cup (b \ a)
    IN  diff = {} \/ (CHOOSE x \in diff : \A y \in diff : y <= x) \in a

\* __builtin_ctzll: number of trailing zero bits; undefined for 0
Ctzll(w) == LowestSet(w)

(***************************************************************************)
(* Register layout and library constants (arch.h, xlat_tables_defs.h,      *)
(* xlat_tables_v2.h, xlat_tables_aarch32.h, utils_def.h)                   *)
(***************************************************************************)
PAGE_SIZE_4KB == Word(4096)
SCTLR_M_BIT == BIT(0)
SCR_NS_BIT == BIT(0)
XLAT_TABLE_NC == BIT(0)
TTBCR_EAE_BIT == BIT(31)
TTBCR_EPD1_BIT == BIT(23)
TTBCR_SH0_NON_SHAREABLE == Shl(Word(0), 12)
TTBCR_SH0_INNER_SHAREABLE == Shl(Word(3), 12)
TTBCR_RGN0_OUTER_NC == Shl(Word(0), 10)
TTBCR_RGN0_OUTER_WBA == Shl(Word(1), 10)
TTBCR_RGN0_INNER_NC == Shl(Word(0), 8)
TTBCR_RGN0_INNER_WBA == Shl(Word(1), 8)
TTBCR_TxSZ_MIN == 0
TTBCR_TxSZ_MAX == 7
TTBR_CNP_BIT == BIT(0)
ATTR_DEVICE == Word(4)
ATTR_IWBWA_OWBWA_NTR == Word(255)
ATTR_NON_CACHEABLE == Word(68)
ATTR_IWBWA_OWBWA_NTR_INDEX == 0
ATTR_DEVICE_INDEX == 1
ATTR_NON_CACHEABLE_INDEX == 2
MMU_CFG_MAIR == 0
MMU_CFG_TCR == 1
MMU_CFG_TTBR0 == 2
TLBI_ADDR_MASK == 12 .. 31

MAIR0_ATTR_SET(attr, index) == Shl(attr, index * 8)
IS_POWER_OF_TWO(x) == x \cap Dec32(x) = {}
MIN_VIRT_ADDR_SPACE_SIZE == BIT(32 - TTBCR_TxSZ_MAX)
MAX_VIRT_ADDR_SPACE_SIZE == BIT(32 - TTBCR_TxSZ_MIN)
CHECK_VIRT_ADDR_SPACE_SIZE(size) ==
    /\ GeWord(size, MIN_VIRT_ADDR_SPACE_SIZE)
    /\ GeWord(MAX_VIRT_ADDR_SPACE_SIZE, size)
    /\ IS_POWER_OF_TWO(size)
IS_IN_SECURE == scr \cap SCR_NS_BIT = {}
ARM_ARCH_AT_LEAST(major, minor) ==
    \/ arm_arch[1] > major
    \/ (arm_arch[1] = major /\ arm_arch[2] >= minor)
TLBI_ADDR(x) == x \cap TLBI_ADDR_MASK

\* fields of the TTBCR image: T0SZ is bits [2:0]; SH0, ORGN0, IRGN0 are bits [13:8]
TTBCR_T0SZ_FIELD == Word(TTBCR_TxSZ_MAX)
TTBCR_WALK0_FIELD == 8 .. 13

(***************************************************************************)
(* Inputs                                                                  *)
(***************************************************************************)
NoCall == [made |-> FALSE]
\* a params[] slot the callee has not stored to: no word has a bit -1
Unwritten == {0 - 1}
UnwrittenParams == [i \in {MMU_CFG_MAIR, MMU_CFG_TCR, MMU_CFG_TTBR0} |-> Unwritten]

Sites == {"A", "B"}
BaseTables == {BIT(31), BIT(31) \cup BIT(14)}   \* 0x80000000, 0x80004000
FlagValues == {{}, {0}, {1}, {0, 1}}            \* XLAT_TABLE_NC is bit 0
\* <<max_pa, xlat_regime>>: 4 GiB with EL1_EL0_REGIME (1), 1 TiB with EL3_REGIME (3)
PaRegimes == {<<0 .. 31, 1>>, <<0 .. 39, 3>>}
MaxVas == {0 .. 31, 0 .. 30, 0 .. 29, 0 .. 24, 0 .. 23, {},
           (0 .. 27) \cup {29}}                 \* last: 0x2FFFFFFF, not 2^n - 1
Regimes == {1, 3}                               \* EL1_EL0_REGIME, EL3_REGIME
Archs == {<<7, 0>>, <<8, 1>>, <<8, 2>>}

(***************************************************************************)
(* setup_mmu_cfg                                                           *)
(***************************************************************************)
\* lines 120-124
SetupMair ==
    MAIR0_ATTR_SET(ATTR_DEVICE, ATTR_DEVICE_INDEX)
    \cup MAIR0_ATTR_SET(ATTR_IWBWA_OWBWA_NTR, ATTR_IWBWA_OWBWA_NTR_INDEX)
    \cup MAIR0_ATTR_SET(ATTR_NON_CACHEABLE, ATTR_NON_CACHEABLE_INDEX)

\* lines 132, 138
TtbcrBase == TTBCR_EAE_BIT \cup TTBCR_EPD1_BIT

T0szOf_wide(max_va) == 64 - Ctzll(Inc32(max_va))
T0szOf_offbyone(max_va) == 31 - Ctzll(Inc32(max_va))
\* lines 146, 153: t0sz for max_va # UINT32_MAX
T0szOf(max_va) == 32 - Ctzll(Inc32(max_va))

\* lines 145-156, the assertion apart
TtbcrT0sz(ttbcr, max_va) ==
    IF max_va # UINT32_MAX THEN ttbcr \cup U32(Word(T0szOf(max_va))) ELSE ttbcr

TtbcrWalkAttrs_merged(ttbcr, flags) ==
    ttbcr \cup TTBCR_SH0_INNER_SHAREABLE \cup TTBCR_RGN0_OUTER_WBA
          \cup TTBCR_RGN0_INNER_WBA
\* lines 162-170
TtbcrWalkAttrs(ttbcr, flags) ==
    IF flags \cap XLAT_TABLE_NC # {}
    THEN ttbcr \cup TTBCR_SH0_NON_SHAREABLE \cup TTBCR_RGN0_OUTER_NC
               \cup TTBCR_RGN0_INNER_NC
    ELSE ttbcr \cup TTBCR_SH0_INNER_SHAREABLE \cup TTBCR_RGN0_OUTER_WBA
               \cup TTBCR_RGN0_INNER_WBA

SetupTtbr0_v8(base_table) ==
    IF arm_arch[1] >= 8
    THEN U32(base_table) \cup TTBR_CNP_BIT
    ELSE U32(base_table)
\* lines 173-181
SetupTtbr0(base_table) ==
    IF ARM_ARCH_AT_LEAST(8, 2)
    THEN U32(base_table) \cup TTBR_CNP_BIT
    ELSE U32(base_table)

\* the conditions of the two assertions, lines 117 and 145-148
SetupPrecondition(max_va) ==
    /\ IS_IN_SECURE
    /\ (max_va # UINT32_MAX => CHECK_VIRT_ADDR_SPACE_SIZE(Inc32(max_va)))

\* assert(): evaluated only when the build has ENABLE_ASSERTIONS
SetupAsserts(max_va) == enable_assertions /\ ~SetupPrecondition(max_va)

\* lines 184-186
SetupParams(base_table, flags, max_va) ==
    [i \in {MMU_CFG_MAIR, MMU_CFG_TCR, MMU_CFG_TTBR0} |->
        IF i = MMU_CFG_MAIR THEN SetupMair
        ELSE IF i = MMU_CFG_TCR
             THEN TtbcrWalkAttrs(TtbcrT0sz(TtbcrBase, max_va), flags)
             ELSE SetupTtbr0(base_table)]

SetupOutcome_assert_last(site, flags, base_table, max_va) ==
    [halted |-> halted \/ SetupAsserts(max_va),
     params |-> [params EXCEPT ![site] = SetupParams(base_table, flags, max_va)]]
\* the assertions precede the stores to params[]: a failed assertion panics
\* before line 184 is reached
SetupOutcome(site, flags, base_table, max_va) ==
    IF SetupAsserts(max_va)
    THEN [halted |-> TRUE, params |-> params]
    ELSE [halted |-> halted,
          params |-> [params EXCEPT ![site] = SetupParams(base_table, flags, max_va)]]

\* lines 110-187
setup_mmu_cfg(site, flags, base_table, max_pa, max_va, xlat_regime) ==
    /\ ~halted
    /\ call' = [call EXCEPT ![site] =
                   [made |-> TRUE, flags |-> flags, base_table |-> base_table,
                    max_pa |-> max_pa, max_va |-> max_va,
                    xlat_regime |-> xlat_regime]]
    /\ halted' = SetupOutcome(site, flags, base_table, max_va).halted
    /\ params' = SetupOutcome(site, flags, base_table, max_va).params
    /\ last' = [op |-> "setup_mmu_cfg"]
    /\ UNCHANGED <<enable_assertions, arm_arch, scr, sctlr>>
    /\ UNCHANGED tlb_vars

(***************************************************************************)
(* Capability queries and the regime state probe                           *)
(***************************************************************************)
GranuleSizes == {Word(0), Word(1), Word(1024), Word(4095), Word(4096), Word(4097),
                 Word(8192), Word(16384), Word(65536), 12 .. 31}
SctlrValues == {{}, BIT(0), BIT(2), Word(12910712), Word(12910713)}
                                                \* last two: 0xC50078, 0xC50079
Contexts == {"tf_xlat_ctx", "other_ctx"}

IsGranuleSizeSupported_atleast(size) ==
    IF GeWord(size, PAGE_SIZE_4KB) THEN 1 ELSE 0
\* line 30
IsGranuleSizeSupported(size) == IF size = PAGE_SIZE_4KB THEN 1 ELSE 0

\* lines 24-31
xlat_arch_is_granule_size_supported(size) ==
    /\ ~halted
    /\ last' = [op |-> "xlat_arch_is_granule_size_supported", size |-> size,
                ret |-> IsGranuleSizeSupported(size)]
    /\ UNCHANGED <<enable_assertions, arm_arch, scr, sctlr, params, call, halted>>
    /\ UNCHANGED tlb_vars

\* line 35
MaxSupportedGranuleSize == PAGE_SIZE_4KB

\* lines 33-36
xlat_arch_get_max_supported_granule_size ==
    /\ ~halted
    /\ last' = [op |-> "xlat_arch_get_max_supported_granule_size",
                ret |-> MaxSupportedGranuleSize]
    /\ UNCHANGED <<enable_assertions, arm_arch, scr, sctlr, params, call, halted>>
    /\ UNCHANGED tlb_vars

IsMmuEnabled_anybit(ctx) == IF sctlr # {} THEN 1 ELSE 0
\* line 48
IsMmuEnabled(ctx) == IF sctlr \cap SCTLR_M_BIT # {} THEN 1 ELSE 0

\* lines 46-49
is_mmu_enabled_ctx(ctx) ==
    /\ ~halted
    /\ last' = [op |-> "is_mmu_enabled_ctx", ctx |-> ctx, ret |-> IsMmuEnabled(ctx)]
    /\ UNCHANGED <<enable_assertions, arm_arch, scr, sctlr, params, call, halted>>
    /\ UNCHANGED tlb_vars

\* the external enabling routine (or any other software) writes SCTLR
write_sctlr(v) ==
    /\ ~halted
    /\ sctlr' = v
    /\ last' = [op |-> "write_sctlr"]
    /\ UNCHANGED <<enable_assertions, arm_arch, scr, params, call, halted>>
    /\ UNCHANGED tlb_vars

(***************************************************************************)
(* Initial states and specifications of the configuration side            *)
(***************************************************************************)
InitTlbIdle ==
    /\ table = <<>>
    /\ mem = <<>>
    /\ store_buf = <<>>
    /\ tlb = <<>>
    /\ pending = {}
    /\ writer = 0
    /\ changed = {}
    /\ dirty = {}
    /\ prog = <<>>
    /\ cur_call = NoCall
    /\ issued = <<>>
    /\ wpc = "idle"
    /\ batches = 0

InitCfg ==
    /\ enable_assertions \in BOOLEAN
    /\ arm_arch \in Archs
    /\ scr \in {{}, SCR_NS_BIT}
    /\ sctlr = {}                  \* the MMU is disabled out of reset
    /\ params = [s \in Sites |-> UnwrittenParams]
    /\ call = [s \in Sites |-> NoCall]
    /\ halted = FALSE
    /\ last = [op |-> "none"]
    /\ InitTlbIdle

\* the driver builds a configuration at call site A and then one at call site B
NextCfg ==
    \E site \in Sites, flags \in FlagValues, base_table \in BaseTables,
       pr \in PaRegimes, max_va \in MaxVas :
        /\ ~call[site].made
        /\ site = "B" => call["A"].made
        /\ setup_mmu_cfg(site, flags, base_table, pr[1], max_va, pr[2])

SpecCfg == InitCfg /\ [][NextCfg]_vars

NextQuery ==
    \/ \E size \in GranuleSizes : xlat_arch_is_granule_size_supported(size)
    \/ xlat_arch_get_max_supported_granule_size
    \/ \E ctx \in Contexts : is_mmu_enabled_ctx(ctx)
    \/ \E v \in SctlrValues : write_sctlr(v)
    \/ \E flags \in {{}, XLAT_TABLE_NC}, max_va \in {UINT32_MAX, 0 .. 29, {}},
          xlat_regime \in Regimes :
           setup_mmu_cfg("A", flags, BIT(31), 0 .. 31, max_va, xlat_regime)

SpecQuery == InitCfg /\ [][NextQuery]_vars

(***************************************************************************)
(* TLB maintenance: xlat_arch_tlbi_va and xlat_arch_tlbi_va_sync           *)
(*                                                                         *)
(* One PE at a time updates the table: it stores an entry, calls           *)
(* xlat_arch_tlbi_va for it, and after the batch calls                     *)
(* xlat_arch_tlbi_va_sync.  Every PE walks the table and refills or evicts *)
(* its TLB at any time.  The effect of each primitive is the one the       *)
(* comments at lines 58-61 and 72-89 state.                                *)
(***************************************************************************)
MaxBatches == 2
PEs == {1, 2}                                   \* two PEs share the table
Pages == {BIT(12), BIT(13)}                     \* pages at 0x1000 and 0x2000
Vas == {BIT(12) \cup BIT(2), BIT(13) \cup (0 .. 11)}   \* 0x1004, 0x2FFF
Descs == {0, 1}                                 \* two contents of a table entry
PageOf(va) == va \cap (12 .. 31)

xlat_arch_tlbi_va_unordered(va, xlat_regime) ==
    << <<"tlbimvaais", TLBI_ADDR(va)>>, <<"dsbishst">> >>
xlat_arch_tlbi_va_nobarrier(va, xlat_regime) ==
    << <<"tlbimvaais", TLBI_ADDR(va)>> >>
\* lines 56-65: the primitives executed, in program order
xlat_arch_tlbi_va(va, xlat_regime) ==
    << <<"dsbishst">>, <<"tlbimvaais", TLBI_ADDR(va)>> >>

xlat_arch_tlbi_va_sync_isb_first ==
    << <<"bpiallis">>, <<"isb">>, <<"dsbish">> >>
\* lines 67-91: the primitives executed, in program order
xlat_arch_tlbi_va_sync ==
    << <<"bpiallis">>, <<"dsbish">>, <<"isb">> >>

HasEntry(pe, page) == \E d \in Descs : <<page, d>> \in tlb[pe]
\* the descriptor a translation of `page` by `pe` uses in this state: the TLB
\* entry on a hit, the entry in memory on a miss
Lookup(pe, page) ==
    IF HasEntry(pe, page) THEN CHOOSE d \in Descs : <<page, d>> \in tlb[pe]
    ELSE mem[page]

cfg_unchanged == UNCHANGED cfg_vars

\* a PE becomes the (single) writer of the table
begin_update(pe) ==
    /\ wpc \in {"idle", "synced"}
    /\ batches < MaxBatches
    /\ batches' = batches + 1
    /\ writer' = pe
    /\ changed' = {}
    /\ wpc' = "write"
    /\ UNCHANGED <<table, mem, store_buf, tlb, pending, dirty, prog, cur_call, issued>>
    /\ cfg_unchanged

\* the writer stores a new descriptor into a table entry
write_entry(page, d) ==
    /\ wpc = "write"
    /\ d # table[page]
    /\ table' = [table EXCEPT ![page] = d]
    /\ store_buf' = store_buf \cup {page}
    /\ changed' = changed \cup {page}
    /\ dirty' = dirty \cup {page}
    /\ UNCHANGED <<batches, mem, tlb, pending, writer, prog, cur_call, issued, wpc>>
    /\ cfg_unchanged

\* the writer calls xlat_arch_tlbi_va(va, xlat_regime)
call_tlbi_va(va, xlat_regime) ==
    /\ wpc = "write"
    /\ PageOf(va) \in dirty
    /\ cur_call' = [made |-> TRUE, fn |-> "xlat_arch_tlbi_va", va |-> va,
                    xlat_regime |-> xlat_regime]
    /\ prog' = xlat_arch_tlbi_va(va, xlat_regime)
    /\ issued' = <<>>
    /\ wpc' = "call"
    /\ UNCHANGED <<batches, table, mem, store_buf, tlb, pending, writer, changed, dirty>>
    /\ cfg_unchanged

\* the writer calls xlat_arch_tlbi_va_sync() once every changed entry has been
\* passed to xlat_arch_tlbi_va
call_tlbi_va_sync ==
    /\ wpc = "write"
    /\ dirty = {}
    /\ cur_call' = [made |-> TRUE, fn |-> "xlat_arch_tlbi_va_sync"]
    /\ prog' = xlat_arch_tlbi_va_sync
    /\ issued' = <<>>
    /\ wpc' = "call"
    /\ UNCHANGED <<batches, table, mem, store_buf, tlb, pending, writer, changed, dirty>>
    /\ cfg_unchanged

Issue ==
    /\ prog' = Tail(prog)
    /\ issued' = Append(issued, Head(prog))

\* DSB ISHST (line 62): completes once the stores before it are visible
dsbishst ==
    /\ wpc = "call" /\ prog # <<>> /\ Head(prog)[1] = "dsbishst"
    /\ store_buf = {}
    /\ Issue
    /\ UNCHANGED <<batches, table, mem, store_buf, tlb, pending, writer, changed, dirty,
                   cur_call, wpc>>
    /\ cfg_unchanged

\* TLBIMVAAIS (line 64): broadcasts the invalidation of a page to every PE of
\* the inner-shareable domain; it can complete at any time from now on
tlbimvaais ==
    /\ wpc = "call" /\ prog # <<>> /\ Head(prog)[1] = "tlbimvaais"
    /\ pending' = pending \cup {Head(prog)[2]}
    /\ Issue
    /\ UNCHANGED <<batches, table, mem, store_buf, tlb, writer, changed, dirty, cur_call, wpc>>
    /\ cfg_unchanged

\* BPIALLIS (line 70)
bpiallis ==
    /\ wpc = "call" /\ prog # <<>> /\ Head(prog)[1] = "bpiallis"
    /\ Issue
    /\ UNCHANGED <<batches, table, mem, store_buf, tlb, pending, writer, changed, dirty,
                   cur_call, wpc>>
    /\ cfg_unchanged

\* DSB ISH (line 82): completes once the stores and the TLB maintenance
\* instructions before it are complete on every PE
dsbish ==
    /\ wpc = "call" /\ prog # <<>> /\ Head(prog)[1] = "dsbish"
    /\ store_buf = {}
    /\ pending = {}
    /\ Issue
    /\ UNCHANGED <<batches, table, mem, store_buf, tlb, pending, writer, changed, dirty,
                   cur_call, wpc>>
    /\ cfg_unchanged

\* ISB (line 90)
isb ==
    /\ wpc = "call" /\ prog # <<>> /\ Head(prog)[1] = "isb"
    /\ Issue
    /\ UNCHANGED <<batches, table, mem, store_buf, tlb, pending, writer, changed, dirty,
                   cur_call, wpc>>
    /\ cfg_unchanged

\* the library call returns to the writer
return ==
    /\ wpc = "call" /\ prog = <<>>
    /\ IF cur_call.fn = "xlat_arch_tlbi_va"
       THEN /\ wpc' = "write"
            /\ dirty' = dirty \ {PageOf(cur_call.va)}
       ELSE /\ wpc' = "synced"
            /\ dirty' = dirty
    /\ cur_call' = NoCall
    /\ issued' = <<>>
    /\ UNCHANGED <<batches, table, mem, store_buf, tlb, pending, writer, changed, prog>>
    /\ cfg_unchanged

\* hardware: a buffered store becomes visible to the table walkers
drain(page) ==
    /\ page \in store_buf
    /\ mem' = [mem EXCEPT ![page] = table[page]]
    /\ store_buf' = store_buf \ {page}
    /\ UNCHANGED <<batches, table, tlb, pending, writer, changed, dirty, prog, cur_call,
                   issued, wpc>>
    /\ cfg_unchanged

\* hardware: a broadcast invalidation completes: the entries of the page that
\* the TLBs of the inner-shareable domain hold at this point are gone
tlbi_complete(page) ==
    /\ page \in pending
    /\ tlb' = [pe \in PEs |-> {e \in tlb[pe] : e[1] # page}]
    /\ pending' = pending \ {page}
    /\ UNCHANGED <<batches, table, mem, store_buf, writer, changed, dirty, prog,
                   cur_call, issued, wpc>>
    /\ cfg_unchanged

\* hardware: a PE misses in its TLB, walks the table and caches the entry
table_walk(pe, page) ==
    /\ ~HasEntry(pe, page)
    /\ tlb' = [tlb EXCEPT ![pe] = tlb[pe] \cup {<<page, mem[page]>>}]
    /\ UNCHANGED <<batches, table, mem, store_buf, pending, writer, changed, dirty, prog,
                   cur_call, issued, wpc>>
    /\ cfg_unchanged

\* hardware: a PE drops a TLB entry (replacement)
tlb_evict(pe, page) ==
    /\ HasEntry(pe, page)
    /\ tlb' = [tlb EXCEPT ![pe] = {e \in tlb[pe] : e[1] # page}]
    /\ UNCHANGED <<batches, table, mem, store_buf, pending, writer, changed, dirty, prog,
                   cur_call, issued, wpc>>
    /\ cfg_unchanged

InitTlb ==
    /\ enable_assertions = TRUE
    /\ arm_arch = <<8, 2>>
    /\ scr = {}
    /\ sctlr = SCTLR_M_BIT          \* the tables are live: the MMU is enabled
    /\ params = [s \in Sites |-> UnwrittenParams]
    /\ call = [s \in Sites |-> NoCall]
    /\ halted = FALSE
    /\ last = [op |-> "none"]
    /\ table = [page \in Pages |-> 0]
    /\ mem = table
    /\ store_buf = {}
    /\ tlb = [pe \in PEs |-> {}]
    /\ pending = {}
    /\ writer = 0
    /\ changed = {}
    /\ dirty = {}
    /\ prog = <<>>
    /\ cur_call = NoCall
    /\ issued = <<>>
    /\ wpc = "idle"
    /\ batches = 0

NextTlb ==
    \/ \E pe \in PEs : begin_update(pe)
    \/ \E page \in Pages, d \in Descs : write_entry(page, d)
    \/ \E va \in Vas, xlat_regime \in Regimes : call_tlbi_va(va, xlat_regime)
    \/ call_tlbi_va_sync
    \/ dsbishst
    \/ tlbimvaais
    \/ bpiallis
    \/ dsbish
    \/ isb
    \/ return
    \/ \E page \in Pages : drain(page)
    \/ \E page \in Pages : tlbi_complete(page)
    \/ \E pe \in PEs, page \in Pages : table_walk(pe, page)
    \/ \E pe \in PEs, page \in Pages : tlb_evict(pe, page)

SpecTlb == InitTlb /\ [][NextTlb]_vars

(***************************************************************************)
(* Properties of setup_mmu_cfg (checked under SpecCfg)                     *)
(***************************************************************************)
Tcr(s) == params[s][MMU_CFG_TCR]
Ttbr0(s) == params[s][MMU_CFG_TTBR0]
Written(s) == \A i \in {MMU_CFG_MAIR, MMU_CFG_TCR, MMU_CFG_TTBR0} :
                  params[s][i] # Unwritten
T0szField(s) == Val(Tcr(s) \cap TTBCR_T0SZ_FIELD)
WalkField(s) == Tcr(s) \cap TTBCR_WALK0_FIELD
NcEncoding == TTBCR_SH0_NON_SHAREABLE \cup TTBCR_RGN0_OUTER_NC \cup TTBCR_RGN0_INNER_NC
WbaEncoding ==
    TTBCR_SH0_INNER_SHAREABLE \cup TTBCR_RGN0_OUTER_WBA \cup TTBCR_RGN0_INNER_WBA
\* max_va + 1 = 2^k
SpaceIsTwoTo(s, k) == call[s].made /\ call[s].max_va = 0 .. (k - 1)

\* C1 as stated: for every power of two v = 2^k <= 2^32 a build from the secure
\* state produces a TranslationControl word whose truncation field is 32 - k.
C1_Original ==
    \A s \in Sites : \A k \in 0 .. 32 :
        (SpaceIsTwoTo(s, k) /\ IS_IN_SECURE) =>
            (Written(s) /\ T0szField(s) = 32 - k)

\* C1 amended: for every power of two v = 2^k with 2^25 <= v <= 2^32 a build from
\* the secure state produces a TranslationControl word whose truncation field
\* (bits [2:0]) is 32 - k; it is 0 for v = 2^32 and 2 for max_va = 0x3FFFFFFF.
C1_Truncation ==
    \A s \in Sites : \A k \in 25 .. 32 :
        (SpaceIsTwoTo(s, k) /\ IS_IN_SECURE) =>
            /\ Written(s)
            /\ T0szField(s) = 32 - k
            /\ (k = 32 => T0szField(s) = 0)
            /\ (k = 30 => T0szField(s) = 2)

C1_Witness ==
    /\ IS_IN_SECURE
    /\ SpaceIsTwoTo("A", 30) /\ Written("A") /\ T0szField("A") = 2
    /\ SpaceIsTwoTo("B", 32) /\ Written("B") /\ T0szField("B") = 0

SameButFlags(s, t) ==
    /\ call[s].made /\ call[t].made
    /\ call[s].base_table = call[t].base_table
    /\ call[s].max_pa = call[t].max_pa
    /\ call[s].max_va = call[t].max_va
    /\ call[s].xlat_regime = call[t].xlat_regime

\* C2: two builds that differ only in the non-cacheable flag: the walk
\* attribute bits are exactly the non-cacheable/non-shareable encoding with the
\* flag and exactly the write-back/write-allocate/inner-shareable encoding
\* without it, the two differ, and every other bit of TranslationControl agrees.
C2_WalkAttributes ==
    /\ \A s \in Sites : Written(s) =>
          WalkField(s) = (IF 0 \in call[s].flags THEN NcEncoding ELSE WbaEncoding)
    /\ \A s, t \in Sites :
          (/\ Written(s) /\ Written(t) /\ SameButFlags(s, t)
           /\ 0 \in call[s].flags
           /\ call[t].flags = call[s].flags \ {0}) =>
              /\ WalkField(s) = NcEncoding
              /\ WalkField(t) = WbaEncoding
              /\ WalkField(s) # WalkField(t)
              /\ Tcr(s) \ TTBCR_WALK0_FIELD = Tcr(t) \ TTBCR_WALK0_FIELD

C2_Witness ==
    /\ Written("A") /\ Written("B") /\ SameButFlags("A", "B")
    /\ call["A"].flags = {0, 1} /\ call["B"].flags = {1}
    /\ call["A"].max_va = 0 .. 29
    /\ WalkField("A") = {} /\ WalkField("B") = {8, 10, 12, 13}

PreconditionViolated(s) == call[s].made /\ ~SetupPrecondition(call[s].max_va)

\* C6 as stated: a build whose precondition is violated halts at the assertion
\* with none of the three output slots written.
C6_Original ==
    \A s \in Sites : PreconditionViolated(s) =>
        (halted /\ params[s] = UnwrittenParams)

\* C6 amended: in a build with assertions enabled (ENABLE_ASSERTIONS), a build
\* call whose precondition is violated halts at the assertion with none of the
\* three output slots written.
C6_AssertHalts ==
    \A s \in Sites : (enable_assertions /\ PreconditionViolated(s)) =>
        (halted /\ params[s] = UnwrittenParams)

C6_Witness ==
    /\ enable_assertions /\ IS_IN_SECURE
    /\ Written("A")
    /\ call["B"].made /\ call["B"].max_va = 0 .. 23
    /\ halted /\ params["B"] = UnwrittenParams

Qualifying == arm_arch[1] > 8 \/ (arm_arch[1] = 8 /\ arm_arch[2] >= 2)

\* C7: TableBaseAddress is the base-table address unchanged on a revision
\* before 8.2 and the address with the common-translation-table bit (bit 0)
\* OR'd in on 8.2 or later; no other argument affects it.
C7_TableBase ==
    /\ \A s \in Sites : Written(s) =>
          Ttbr0(s) = (IF Qualifying THEN call[s].base_table \cup {0}
                      ELSE call[s].base_table)
    /\ \A s, t \in Sites :
          (Written(s) /\ Written(t) /\ call[s].base_table = call[t].base_table)
              => Ttbr0(s) = Ttbr0(t)

C7_Witness ==
    /\ arm_arch = <<8, 1>>
    /\ Written("A") /\ Written("B")
    /\ call["A"].base_table = {31} /\ Ttbr0("A") = {31}
    /\ call["B"].base_table = {31} /\ Ttbr0("B") = {31}
    /\ call["A"].flags # call["B"].flags
    /\ call["A"].max_va # call["B"].max_va
    /\ call["A"].xlat_regime # call["B"].xlat_regime

\* C10: for every input that satisfies the conditions of build's assertions
\* the TranslationControl word has the extended-format bit (31) and the
\* secondary-walk-disable bit (23) set, and the truncation value stays inside
\* bits [2:0]: beyond those two bits and the walk attributes selected by the
\* flag, the word has no bit outside the truncation field.
C10_FieldsIntact ==
    \A s \in Sites :
        (Written(s) /\ SetupPrecondition(call[s].max_va)) =>
            /\ {31, 23} \subseteq Tcr(s)
            /\ Tcr(s) \ ({31, 23} \cup TTBCR_WALK0_FIELD) \subseteq {0, 1, 2}
            /\ WalkField(s) = (IF 0 \in call[s].flags THEN NcEncoding ELSE WbaEncoding)

C10_Witness ==
    /\ Written("A") /\ SetupPrecondition(call["A"].max_va)
    /\ call["A"].max_va = 0 .. 24
    /\ Tcr("A") = {31, 23, 13, 12, 10, 8, 2, 1, 0}

(***************************************************************************)
(* Properties of the queries (checked under SpecQuery)                     *)
(***************************************************************************)
\* C8: is-granule-supported(s) returns true iff s = 4096, and
\* max-supported-granule() returns 4096 on every call.
C8_Granule ==
    /\ last.op = "xlat_arch_is_granule_size_supported" =>
          /\ last.ret \in {0, 1}
          /\ (last.ret = 1 <=> last.size = Word(4096))
    /\ last.op = "xlat_arch_get_max_supported_granule_size" =>
          last.ret = Word(4096)

C8_Witness ==
    /\ last.op = "xlat_arch_is_granule_size_supported"
    /\ last.size = {12}
    /\ last.ret = 1

IsPrefix(p, q) == Len(p) <= Len(q) /\ p = SubSeq(q, 1, Len(p))
InSync == cur_call.made /\ cur_call.fn = "xlat_arch_tlbi_va_sync"
InTlbiVa == cur_call.made /\ cur_call.fn = "xlat_arch_tlbi_va"

\* C3: every execution of invalidate-sync issues exactly three primitives in
\* this order: the broadcast branch-predictor invalidate, the completion
\* barrier, the instruction barrier; none is reordered, omitted or repeated.
C3_SyncOrder ==
    InSync =>
        /\ IsPrefix(issued, << <<"bpiallis">>, <<"dsbish">>, <<"isb">> >>)
        /\ (prog = <<>> => issued = << <<"bpiallis">>, <<"dsbish">>, <<"isb">> >>)

C3_Witness ==
    /\ InSync /\ prog = <<>> /\ wpc = "call"
    /\ issued = << <<"bpiallis">>, <<"dsbish">>, <<"isb">> >>
    /\ changed = Pages

\* C4: every execution of invalidate-address(va, regime) issues the
\* store-completion barrier first (so the stores before it have drained when
\* the invalidation is issued), then the broadcast invalidation of the page of
\* va, and nothing after it, whatever the regime.
C4_TlbiVaOrder ==
    InTlbiVa =>
        LET expected == << <<"dsbishst">>,
                           <<"tlbimvaais", cur_call.va \ (0 .. 11)>> >>
        IN  /\ IsPrefix(issued, expected)
            /\ (prog = <<>> => issued = expected)
            /\ (Len(issued) >= 1 => store_buf = {})

C4_Witness ==
    /\ InTlbiVa /\ prog = <<>> /\ wpc = "call"
    /\ cur_call.va = BIT(13) \cup (0 .. 11)
    /\ cur_call.xlat_regime = 3
    /\ issued = << <<"dsbishst">>, <<"tlbimvaais", {13}>> >>

\* C5: once invalidate-sync has returned, no PE (the writer included)
\* translates a changed address with the entry it had before the update: a
\* TLB hit or a table walk yields the entry the writer stored last.
C5_NoStaleTranslation ==
    wpc = "synced" =>
        \A pe \in PEs : \A page \in changed : Lookup(pe, page) = table[page]

C5_Witness ==
    /\ wpc = "synced"
    /\ changed = Pages
    /\ \A page \in Pages : table[page] = 1
    /\ \A pe \in PEs : \A page \in Pages : <<page, 1>> \in tlb[pe]

====
